---- MODULE Spec2Model ----
(***************************************************************************)
(* Model of scripts/validate-index.ts: the registry index validator.       *)
(*                                                                         *)
(* The script is one sequential pass: load and parse the index file,       *)
(* check that the top level is an array, run every field check on every    *)
(* entry while printing violations to stderr, and decide the exit status.  *)
(*                                                                         *)
(* JSON values are records [t, s, n, a]: t is the JavaScript type tag,     *)
(* s the characters of a string (a sequence of one-character strings),     *)
(* n the value of a number or boolean, a the elements of an array.         *)
(***************************************************************************)
EXTENDS Integers, Sequences, FiniteSets

\* Largest number of entries of the index arrays that are explored.
MaxEntries == 2

\* Largest number of entries of the arrays explored by SpecDate.
MaxDateEntries == 1

----------------------------------------------------------------------------
\* JSON / JavaScript values

Undefined == [t |-> "undefined", s |-> <<>>, n |-> 0, a |-> <<>>]
Null      == [t |-> "null",      s |-> <<>>, n |-> 0, a |-> <<>>]
Str(cs)   == [t |-> "string",    s |-> cs,   n |-> 0, a |-> <<>>]
Num(k)    == [t |-> "number",    s |-> <<>>, n |-> k, a |-> <<>>]
Bool(b)   == [t |-> "boolean",   s |-> <<>>, n |-> IF b THEN 1 ELSE 0, a |-> <<>>]
Arr(vs)   == [t |-> "array",     s |-> <<>>, n |-> 0, a |-> vs]
Obj       == [t |-> "object",    s |-> <<>>, n |-> 0, a |-> <<>>]

\* typeof value === "object" (true of null, of arrays and of plain objects)
TypeofObject(v) == v.t \in {"null", "array", "object"}

\* JavaScript truthiness, as used by `!entry`
Truthy(v) ==
    CASE v.t = "undefined" -> FALSE
      [] v.t = "null"      -> FALSE
      [] v.t = "string"    -> Len(v.s) > 0
      [] v.t = "number"    -> v.n # 0
      [] v.t = "boolean"   -> v.n = 1
      [] OTHER             -> TRUE

Digits == <<"0", "1", "2", "3", "4", "5", "6", "7", "8", "9">>

RECURSIVE Decimal(_)
\* the decimal text of a natural number, as Number::toString prints it
Decimal(k) == IF k < 10 THEN <<Digits[k + 1]>>
              ELSE Decimal(k \div 10) \o <<Digits[(k % 10) + 1]>>

RECURSIVE ToString(_)
RECURSIVE Join(_)
\* Array.prototype.join(","): null and undefined elements print as ""
Join(vs) ==
    IF Len(vs) = 0 THEN <<>>
    ELSE LET h == IF Head(vs).t \in {"undefined", "null"} THEN <<>>
                  ELSE ToString(Head(vs))
         IN IF Len(vs) = 1 THEN h ELSE h \o <<",">> \o Join(Tail(vs))

\* String(value), also the conversion applied by a template literal
ToString(v) ==
    CASE v.t = "undefined" -> <<"u","n","d","e","f","i","n","e","d">>
      [] v.t = "null"      -> <<"n","u","l","l">>
      [] v.t = "string"    -> v.s
      [] v.t = "number"    -> Decimal(v.n)
      [] v.t = "boolean"   -> IF v.n = 1 THEN <<"t","r","u","e">>
                              ELSE <<"f","a","l","s","e">>
      [] v.t = "array"     -> Join(v.a)
      [] OTHER             -> <<"[","o","b","j","e","c","t"," ","O","b","j","e","c","t","]">>

----------------------------------------------------------------------------
\* Pure predicates of the validator

WhiteSpace == {" ", "\t", "\n"}

RECURSIVE TrimStart(_)
TrimStart(cs) == IF Len(cs) > 0 /\ Head(cs) \in WhiteSpace
                 THEN TrimStart(Tail(cs)) ELSE cs

RECURSIVE TrimEnd(_)
TrimEnd(cs) == IF Len(cs) > 0 /\ cs[Len(cs)] \in WhiteSpace
               THEN TrimEnd(SubSeq(cs, 1, Len(cs) - 1)) ELSE cs

\* String.prototype.trim
Trim(cs) == TrimEnd(TrimStart(cs))

\* typeof value === "string" && value.trim().length > 0
isNonEmptyString(value) == value.t = "string" /\ Len(Trim(value.s)) > 0

LowerAlpha == <<"a","b","c","d","e","f","g","h","i","j","k","l","m",
                "n","o","p","q","r","s","t","u","v","w","x","y","z">>
UpperAlpha == <<"A","B","C","D","E","F","G","H","I","J","K","L","M",
                "N","O","P","Q","R","S","T","U","V","W","X","Y","Z">>

Range(f) == {f[x] : x \in DOMAIN f}

IsDigit(c) == c \in Range(Digits)
IsAlpha(c) == c \in Range(LowerAlpha) \cup Range(UpperAlpha)

\* ASCII lower-casing of one character
ToLower(c) == IF c \in Range(UpperAlpha)
              THEN LowerAlpha[CHOOSE k \in DOMAIN UpperAlpha : UpperAlpha[k] = c]
              ELSE c

\* position of the first element of cs that is in set, or Len(cs) + 1
FirstIn(cs, set) ==
    IF \E k \in DOMAIN cs : cs[k] \in set
    THEN CHOOSE k \in DOMAIN cs : cs[k] \in set /\ \A j \in 1..(k - 1) : cs[j] \notin set
    ELSE Len(cs) + 1

RECURSIVE DropWhileIn(_, _)
DropWhileIn(cs, set) == IF Len(cs) > 0 /\ Head(cs) \in set
                        THEN DropWhileIn(Tail(cs), set) ELSE cs

SpecialSchemes == { <<"h","t","t","p">>, <<"h","t","t","p","s">>, <<"f","t","p">>,
                    <<"w","s">>, <<"w","s","s">> }

\* "failure" of the URL parser: new URL(value) throws a TypeError
UrlFailure == <<>>

\* new URL(value).protocol for an input without a base URL, userinfo or
\* port: the scheme is the leading run of [A-Za-z][A-Za-z0-9+.-]* before the
\* first ":", lower-cased; a special scheme needs a non-empty host made of
\* host characters.  UrlFailure stands for the thrown TypeError.
UrlProtocol(cs) ==
    LET input  == Trim(cs)
        colon  == FirstIn(input, {":"})
        scheme == [k \in 1..(colon - 1) |-> ToLower(input[k])]
        rest   == SubSeq(input, colon + 1, Len(input))
        auth   == DropWhileIn(rest, {"/", "\\"})
        host   == SubSeq(auth, 1, FirstIn(auth, {"/", "\\", "?", "#"}) - 1)
    IN  IF colon > Len(input) \/ colon = 1 THEN UrlFailure
        ELSE IF ~IsAlpha(input[1]) THEN UrlFailure
        ELSE IF \E k \in 1..(colon - 1) :
                   ~(IsAlpha(input[k]) \/ IsDigit(input[k]) \/ input[k] \in {"+", "-", "."})
             THEN UrlFailure
        ELSE IF scheme \in SpecialSchemes
             THEN IF Len(host) = 0 THEN UrlFailure
                  ELSE IF \E k \in DOMAIN host :
                             ~(IsAlpha(host[k]) \/ IsDigit(host[k]) \/ host[k] \in {"-", "."})
                       THEN UrlFailure
                  ELSE scheme \o <<":">>
        ELSE scheme \o <<":">>

\* try { return new URL(value).protocol === "https:" } catch { return false }
isHttpsUrl(value) ==
    IF ~isNonEmptyString(value) THEN FALSE
    ELSE UrlProtocol(value.s) = <<"h","t","t","p","s",":">>

\* the repetition count of the sha256 pattern
ShaLen == 64

IsHexDigit(c) == IsDigit(c) \/ c \in {"a","b","c","d","e","f","A","B","C","D","E","F"}

\* isNonEmptyString(value) && /^[a-fA-F0-9]{64}$/.test(value)
isSha256(value) ==
    /\ isNonEmptyString(value)
    /\ Len(value.s) = ShaLen
    /\ \A k \in DOMAIN value.s : IsHexDigit(value.s[k])

DigitValue(c) == (CHOOSE k \in DOMAIN Digits : Digits[k] = c) - 1

\* /^\d{4}-\d{2}-\d{2}$/.test(value)
MatchesDatePattern(cs) ==
    /\ Len(cs) = 10
    /\ \A k \in {1, 2, 3, 4, 6, 7, 9, 10} : IsDigit(cs[k])
    /\ cs[5] = "-"
    /\ cs[8] = "-"

DateYear(cs)  == 1000 * DigitValue(cs[1]) + 100 * DigitValue(cs[2])
                 + 10 * DigitValue(cs[3]) + DigitValue(cs[4])
DateMonth(cs) == 10 * DigitValue(cs[6]) + DigitValue(cs[7])
DateDay(cs)   == 10 * DigitValue(cs[9]) + DigitValue(cs[10])

isLeapYear(year) == year % 4 = 0 /\ (year % 100 # 0 \/ year % 400 = 0)

daysPerMonth == <<31, 29, 31, 30, 31, 30, 31, 31, 30, 31, 30, 31>>

\* a parser that range-checks the day against 31 only and lets the date
\* roll over into the next month
DateIsValid_rollover(year, month, day) ==
    /\ month >= 1 /\ month <= 12
    /\ day >= 1 /\ day <= 31

\* !Number.isNaN(new Date(`${value}T00:00:00Z`).getTime()) for a value that
\* matched the pattern.  The script runs under bun (line 1), whose Date
\* constructor parses the ISO format strictly: month 01..12, day within the
\* month, 29 February in leap years only; the time part 00:00:00Z is valid.
DateIsValid(year, month, day) ==
    /\ month >= 1 /\ month <= 12
    /\ day >= 1 /\ day <= daysPerMonth[month]
    /\ ~(month = 2 /\ day > 28 /\ ~isLeapYear(year))

isIsoDate(value) ==
    IF ~isNonEmptyString(value) THEN FALSE
    ELSE IF ~MatchesDatePattern(value.s) THEN FALSE
    ELSE DateIsValid(DateYear(value.s), DateMonth(value.s), DateDay(value.s))

\* Array.isArray(value) && value.length > 0 && value.every(isNonEmptyString)
assertArrayOfStrings(value) ==
    /\ value.t = "array"
    /\ Len(value.a) > 0
    /\ \A k \in DOMAIN value.a : isNonEmptyString(value.a[k])

allowedSources == { <<"v","e","n","d","o","r">>,
                    <<"c","o","m","m","u","n","i","t","y">>,
                    <<"i","n","t","e","r","n","a","l">> }

requiredStrings_noSigner == <<"id", "tool", "version", "description">>

requiredStrings == <<"id", "tool", "version", "description", "signer">>

\* `${record.id}@${record.version}`
IdentityKey(record) == ToString(record.id) \o <<"@">> \o ToString(record.version)

----------------------------------------------------------------------------
\* Inputs: the index files that are explored

Hex64 == [k \in 1..ShaLen |-> <<"0", "a", "F", "9">>[(k % 4) + 1]]

NoFields ==
    [id |-> Undefined, tool |-> Undefined, version |-> Undefined,
     description |-> Undefined, signer |-> Undefined, frameworks |-> Undefined,
     mappingIds |-> Undefined, packUrl |-> Undefined, publicKeyUrl |-> Undefined,
     sha256 |-> Undefined, source |-> Undefined, createdAt |-> Undefined]

\* the fields of a pack entry that satisfies every rule
Good ==
    [id |-> Str(<<"a">>), tool |-> Str(<<"t">>), version |-> Str(<<"1">>),
     description |-> Str(<<"d">>), signer |-> Str(<<"s">>),
     frameworks |-> Arr(<<Str(<<"f">>)>>), mappingIds |-> Arr(<<Str(<<"m">>)>>),
     packUrl |-> Str(<<"h","t","t","p","s",":","/","/","h","/","p">>),
     publicKeyUrl |-> Str(<<"h","t","t","p","s",":","/","/","h",".","i","o">>),
     sha256 |-> Str(Hex64), source |-> Str(<<"v","e","n","d","o","r">>),
     createdAt |-> Str(<<"2","0","2","4","-","0","1","-","1","5">>)]

\* an entry of the array: its value v and, for an object, its properties f
\* (a property that is absent reads as undefined, as record[key] does; the
\* named properties of an array or a scalar are all absent)
Object(fields) == [v |-> Obj, f |-> fields]
NonRecord(value) == [v |-> value, f |-> NoFields]

IdVersionEntries ==
    { Object([Good EXCEPT !.id = idv[1], !.version = idv[2]]) :
        idv \in { <<Str(<<"a">>), Str(<<"1">>)>>,
                  <<Str(<<"a">>), Str(<<"2">>)>>,
                  <<Str(<<"a","@","b">>), Str(<<"1">>)>>,
                  <<Str(<<"a">>), Str(<<"b","@","1">>)>>,
                  <<Num(1), Str(<<"1">>)>>,
                  <<Str(<<" ">>), Undefined>> } }

FieldEntries ==
    { Object(NoFields),
      Object([Good EXCEPT !.tool = Undefined, !.description = Str(<<" ", "\t">>),
                          !.signer = Num(7)]),
      Object([Good EXCEPT !.signer = Undefined]),
      Object([Good EXCEPT !.frameworks = Arr(<<>>), !.mappingIds = Str(<<"m">>),
                          !.packUrl = Str(<<"h","t","t","p",":","/","/","h">>),
                          !.publicKeyUrl = Str(<<"h",".","i","o">>)]),
      Object([Good EXCEPT !.frameworks = Arr(<<Str(<<"f">>), Str(<<>>)>>),
                          !.mappingIds = Arr(<<Str(<<"m">>), Num(1)>>),
                          !.packUrl = Str(<<"h","t","t","p","s",":","/","/">>),
                          !.publicKeyUrl = Str(<<"H","T","T","P","S",":","/","/","h">>),
                          !.sha256 = Str(SubSeq(Hex64, 2, ShaLen)),
                          !.source = Str(<<"o","t","h","e","r">>),
                          !.createdAt = Str(<<"2","0","2","4","-","1","3","-","4","0">>)]),
      Object([Good EXCEPT !.sha256 = Str(<<"g">> \o SubSeq(Hex64, 2, ShaLen)),
                          !.source = Undefined, !.createdAt = Num(20240115)]),
      Object([Good EXCEPT !.source = Arr(<<Str(<<"v","e","n","d","o","r">>)>>)]),
      Object([Good EXCEPT !.source = Str(<<"i","n","t","e","r","n","a","l">>),
                          !.createdAt = Str(<<"2","0","2","4","-","0","2","-","2","9">>)]),
      Object([Good EXCEPT !.createdAt = Str(<<"2","0","2","4","-","0","2","-","3","0">>)]),
      Object([Good EXCEPT !.createdAt = Str(<<"2","0","2","4","-","1","-","5">>)]) }

NonObjectEntries ==
    { NonRecord(Null), NonRecord(Num(0)), NonRecord(Str(<<"a">>)), NonRecord(Bool(TRUE)),
      NonRecord(Arr(<<>>)) }

EntryPool == IdVersionEntries \cup FieldEntries \cup NonObjectEntries

\* createdAt strings "YYYY-MM-DD" over the years, months and days that
\* exercise the calendar rules
DateYears  == { <<"1","9","0","0">>, <<"2","0","0","0">>, <<"2","0","2","3">>,
                <<"2","0","2","4">> }
DateMonths == { <<"0","0">>, <<"0","2">>, <<"0","4">>, <<"1","2">>, <<"1","3">> }
DateDays   == { <<"0","0">>, <<"0","1">>, <<"2","8">>, <<"2","9">>, <<"3","0">>,
                <<"3","1">>, <<"3","2">> }

DatePool ==
    { Object([Good EXCEPT !.createdAt = Str(y \o <<"-">> \o m \o <<"-">> \o d)]) :
        y \in DateYears, m \in DateMonths, d \in DateDays }

ArraysOver(pool, max) == UNION { [1..len -> pool] : len \in 0..max }

\* what reading and parsing the file yields: a failure of readFileSync, a
\* failure of JSON.parse, or the parsed top-level value (top is its type,
\* items its elements when it is an array)
Failures ==
    { [kind |-> kd, top |-> "none", items |-> <<>>] : kd \in {"ENOENT", "SyntaxError"} }
NonArrays ==
    { [kind |-> "ok", top |-> tp, items |-> <<>>] : tp \in {"object", "null", "number", "string"} }
Arrays(pool, max) ==
    { [kind |-> "ok", top |-> "array", items |-> its] : its \in ArraysOver(pool, max) }

----------------------------------------------------------------------------
\* The run of the script

VARIABLES
    input,      \* what reading and parsing the index file yields
    pc,         \* the statement the script is at
    i,          \* index (from 0) of the entry the loop is at
    k,          \* position in requiredStrings of the inner loop
    seen,       \* the set of identity keys recorded so far
    stderr,     \* the lines written with console.error, in order
    stdout,     \* the lines written with console.log, in order
    exitCode,   \* process.exitCode (0 while it is unset)
    status      \* the exit status of the process (-1 while it runs)

vars == <<input, pc, i, k, seen, stderr, stdout, exitCode, status>>

\* a line of output: its kind, the entry index and field of its prefix, and
\* the identity key a duplicate line cites
Line(kind, idx, field, key) == [kind |-> kind, i |-> idx, field |-> field, key |-> key]

ReadFailedLine   == Line("Failed to read", -1, "", <<>>)
NotArrayLine     == Line("must be an array of entries", -1, "", <<>>)
NotObjectLine(j) == Line("must be an object", j, "", <<>>)
FieldLine(j, fd) == Line("field", j, fd, <<>>)
DuplicateLine(j, key) == Line("duplicates id+version", j, "", key)
FailedLine       == Line("Index validation failed.", -1, "", <<>>)
PassedLine       == Line("Index validation passed.", -1, "", <<>>)

fail_keepExitCode(message) ==
    /\ stderr' = Append(stderr, message)
    /\ exitCode' = exitCode

\* console.error(message); process.exitCode = 1
fail(message) ==
    /\ stderr' = Append(stderr, message)
    /\ exitCode' = 1

\* fail(message) when the check does not pass
failUnless(ok, message) ==
    IF ok THEN UNCHANGED <<stderr, exitCode>> ELSE fail(message)

entry  == input.items[i + 1]
record == entry.f

InitOver(inputs) ==
    /\ input \in inputs
    /\ pc = "read"
    /\ i = 0
    /\ k = 1
    /\ seen = {}
    /\ stderr = <<>>
    /\ stdout = <<>>
    /\ exitCode = 0
    /\ status = -1

Init == InitOver(Failures \cup NonArrays \cup Arrays(EntryPool, MaxEntries))

\* data = JSON.parse(fs.readFileSync(indexPath, "utf8")), or the catch block
ReadIndex ==
    /\ pc = "read"
    /\ IF input.kind = "ok"
       THEN /\ pc' = "shape"
            /\ UNCHANGED <<stderr, status>>
       ELSE /\ stderr' = Append(stderr, ReadFailedLine)
            /\ status' = 1
            /\ pc' = "exit"
    /\ UNCHANGED <<input, i, k, seen, stdout, exitCode>>

\* the head of `for (const [i, entry] of data.entries())` for index j
LoopHead(j) ==
    /\ i' = j
    /\ pc' = IF j < Len(input.items) THEN "entry" ELSE "final"

CheckShape_noExit ==
    /\ pc = "shape"
    /\ IF input.top # "array"
       THEN /\ fail(NotArrayLine)
            /\ pc' = "final"
            /\ UNCHANGED <<i, status>>
       ELSE /\ LoopHead(0)
            /\ UNCHANGED <<stderr, exitCode, status>>
    /\ UNCHANGED <<input, k, seen, stdout>>

\* if (!Array.isArray(data)) { fail(...); process.exit(1) }
CheckShape ==
    /\ pc = "shape"
    /\ IF input.top # "array"
       THEN /\ fail(NotArrayLine)
            /\ status' = 1
            /\ pc' = "exit"
            /\ UNCHANGED i
       ELSE /\ LoopHead(0)
            /\ UNCHANGED <<stderr, exitCode, status>>
    /\ UNCHANGED <<input, k, seen, stdout>>

\* if (!entry || typeof entry !== "object") { fail(...); continue }
GuardEntry ==
    /\ pc = "entry"
    /\ IF ~Truthy(entry.v) \/ ~TypeofObject(entry.v)
       THEN /\ fail(NotObjectLine(i))
            /\ LoopHead(i + 1)
            /\ UNCHANGED k
       ELSE /\ pc' = "requiredStrings"
            /\ k' = 1
            /\ UNCHANGED <<i, stderr, exitCode>>
    /\ UNCHANGED <<input, seen, stdout, status>>

\* one iteration of `for (const key of requiredStrings)`
CheckRequiredString ==
    /\ pc = "requiredStrings"
    /\ failUnless(isNonEmptyString(record[requiredStrings[k]]),
                  FieldLine(i, requiredStrings[k]))
    /\ IF k < Len(requiredStrings)
       THEN k' = k + 1 /\ pc' = pc
       ELSE k' = k /\ pc' = "frameworks"
    /\ UNCHANGED <<input, i, seen, stdout, status>>

\* one `if (!check(record.field)) fail(...)` statement, then on to `next`
CheckField(at, ok, next) ==
    /\ pc = at
    /\ failUnless(ok, FieldLine(i, at))
    /\ pc' = next
    /\ UNCHANGED <<input, i, k, seen, stdout, status>>

CheckFrameworks   == CheckField("frameworks", assertArrayOfStrings(record.frameworks), "mappingIds")
CheckMappingIds   == CheckField("mappingIds", assertArrayOfStrings(record.mappingIds), "packUrl")
CheckPackUrl      == CheckField("packUrl", isHttpsUrl(record.packUrl), "publicKeyUrl")
CheckPublicKeyUrl == CheckField("publicKeyUrl", isHttpsUrl(record.publicKeyUrl), "sha256")

CheckSha256_continue ==
    /\ pc = "sha256"
    /\ failUnless(isSha256(record.sha256), FieldLine(i, "sha256"))
    /\ IF isSha256(record.sha256) THEN pc' = "source" /\ i' = i ELSE LoopHead(i + 1)
    /\ UNCHANGED <<input, k, seen, stdout, status>>

CheckSha256       == CheckField("sha256", isSha256(record.sha256), "source")
CheckSource       == CheckField("source", ToString(record.source) \in allowedSources, "createdAt")
CheckCreatedAt    == CheckField("createdAt", isIsoDate(record.createdAt), "duplicate")

CheckDuplicate_validOnly ==
    /\ pc = "duplicate"
    /\ IF isNonEmptyString(record.id) /\ isNonEmptyString(record.version)
       THEN /\ failUnless(IdentityKey(record) \notin seen, DuplicateLine(i, IdentityKey(record)))
            /\ seen' = seen \cup {IdentityKey(record)}
       ELSE UNCHANGED <<stderr, exitCode, seen>>
    /\ LoopHead(i + 1)
    /\ UNCHANGED <<input, k, stdout, status>>

\* const key = ...; if (seen.has(key)) fail(...); seen.add(key)
CheckDuplicate ==
    /\ pc = "duplicate"
    /\ failUnless(IdentityKey(record) \notin seen, DuplicateLine(i, IdentityKey(record)))
    /\ seen' = seen \cup {IdentityKey(record)}
    /\ LoopHead(i + 1)
    /\ UNCHANGED <<input, k, stdout, status>>

\* the exit status decision after the loop; the script ends there, and the
\* process exits with process.exitCode
Finish ==
    /\ pc = "final"
    /\ IF exitCode # 0
       THEN /\ stderr' = Append(stderr, FailedLine)
            /\ UNCHANGED stdout
       ELSE /\ stdout' = Append(stdout, PassedLine)
            /\ UNCHANGED stderr
    /\ status' = exitCode
    /\ pc' = "exit"
    /\ UNCHANGED <<input, i, k, seen, exitCode>>

Next ==
    \/ ReadIndex
    \/ CheckShape
    \/ GuardEntry
    \/ CheckRequiredString
    \/ CheckFrameworks
    \/ CheckMappingIds
    \/ CheckPackUrl
    \/ CheckPublicKeyUrl
    \/ CheckSha256
    \/ CheckSource
    \/ CheckCreatedAt
    \/ CheckDuplicate
    \/ Finish

Spec == Init /\ [][Next]_vars

\* the runs over indexes whose entries differ in createdAt only
InitDate == InitOver(Failures \cup NonArrays \cup Arrays(DatePool, MaxDateEntries))

SpecDate == InitDate /\ [][Next]_vars

----------------------------------------------------------------------------
\* Vocabulary of the properties

Done         == pc = "exit"
IsArrayInput == input.kind = "ok" /\ input.top = "array"
Indexes      == 0..(Len(input.items) - 1)
EntryAt(j)   == input.items[j + 1]
IsJsonObject(e) == e.v.t = "object"

ViolationKinds == {"must be an array of entries", "must be an object", "field",
                   "duplicates id+version"}
Violations     == {p \in DOMAIN stderr : stderr[p].kind \in ViolationKinds}
LinesOf(j)     == {p \in DOMAIN stderr : stderr[p].i = j}
Count(line)    == Cardinality({p \in DOMAIN stderr : stderr[p] = line})
Printed(line)  == \E p \in DOMAIN stderr : stderr[p] = line
DuplicateAt(j) == \E p \in LinesOf(j) : stderr[p].kind = "duplicates id+version"

RequiredFields == {"id", "tool", "version", "description", "signer"}
NonBlankString(v) == v.t = "string" /\ \E p \in DOMAIN v.s : v.s[p] \notin WhiteSpace

\* the calendar: the number of days of a month of a year
DaysIn(year, month) ==
    IF month = 2
    THEN IF year % 4 = 0 /\ (year % 100 # 0 \/ year % 400 = 0) THEN 29 ELSE 28
    ELSE IF month \in {4, 6, 9, 11} THEN 30 ELSE 31
RealCalendarDate(cs) ==
    /\ DateMonth(cs) \in 1..12
    /\ DateDay(cs) \in 1..DaysIn(DateYear(cs), DateMonth(cs))

SamePair(e1, e2) == e1.f.id = e2.f.id /\ e1.f.version = e2.f.version

\* the fixed order of the checks of one entry
CheckOrder == <<"id", "tool", "version", "description", "signer", "frameworks",
                "mappingIds", "packUrl", "publicKeyUrl", "sha256", "source", "createdAt">>
Rank(line) ==
    CASE line.kind = "must be an object" -> 0
      [] line.kind = "field" -> CHOOSE r \in DOMAIN CheckOrder : CheckOrder[r] = line.field
      [] OTHER -> Len(CheckOrder) + 1
Before(l1, l2) == l1.i < l2.i \/ (l1.i = l2.i /\ Rank(l1) < Rank(l2))

\* the rule of one field, steps 2 to 7 of the entry validator
FieldOk(fd, v) ==
    CASE fd \in RequiredFields -> NonBlankString(v)
      [] fd \in {"frameworks", "mappingIds"} ->
            v.t = "array" /\ Len(v.a) > 0 /\ \A p \in DOMAIN v.a : NonBlankString(v.a[p])
      [] fd \in {"packUrl", "publicKeyUrl"} ->
            NonBlankString(v) /\ UrlProtocol(v.s) = <<"h","t","t","p","s",":">>
      [] fd = "sha256" ->
            v.t = "string" /\ Len(v.s) = 64 /\ \A p \in DOMAIN v.s : IsHexDigit(v.s[p])
      [] fd = "source" -> ToString(v) \in allowedSources
      [] OTHER -> v.t = "string" /\ MatchesDatePattern(v.s) /\ RealCalendarDate(v.s)

\* the IndexEntry data model: as FieldOk, with source a string
Conforms(e) ==
    /\ IsJsonObject(e)
    /\ \A r \in DOMAIN CheckOrder : FieldOk(CheckOrder[r], e.f[CheckOrder[r]])
    /\ e.f.source.t = "string"

----------------------------------------------------------------------------
\* Properties

C1_Final ==
    /\ (IsArrayInput /\ ~Done) =>
          pc \in {"read", "shape", "final"} \/ i < Len(input.items)
    /\ (Done /\ IsArrayInput) =>
        /\ i = Len(input.items)
        /\ IF Violations = {}
           THEN status = 0 /\ stdout = <<PassedLine>> /\ stderr = <<>>
           ELSE /\ status = 1
                /\ stdout = <<>>
                /\ stderr[Len(stderr)] = FailedLine
                /\ Count(FailedLine) = 1

\* C1: for an array input the run visits every entry and ends with status 0
\* and the success line on stdout exactly when no violation was printed;
\* otherwise it ends with status 1 after the trailing failure line.  Once
\* the failure indicator is set it is never cleared.
C1_ExitStatus ==
    /\ []C1_Final
    /\ [][exitCode # 0 => exitCode' # 0]_vars

C1_Witness ==
    /\ Done /\ IsArrayInput /\ status = 1
    /\ Len(input.items) = MaxEntries
    /\ LinesOf(0) # {} /\ LinesOf(MaxEntries - 1) = {}
    /\ stderr[Len(stderr)] = FailedLine

\* C2: when the file cannot be read or parsed, or its top level is not an
\* array, the run ends with a non-zero status before any entry is examined:
\* no per-entry line, no summary failure line and no success line is
\* printed, and the identity set stays untouched.
C2_FatalLoad ==
    ~IsArrayInput =>
        /\ pc \in {"read", "shape", "exit"}
        /\ i = 0
        /\ seen = {}
        /\ stdout = <<>>
        /\ Len(stderr) <= 1
        /\ \A p \in DOMAIN stderr :
              stderr[p].kind \in {"Failed to read", "must be an array of entries"}
        /\ Done => status # 0 /\ Len(stderr) = 1
        /\ ~Done => ENABLED Next

C2_Witness ==
    /\ Done /\ input.kind = "ok" /\ input.top = "object"
    /\ status = 1 /\ stderr = <<NotArrayLine>>

C3_Order ==
    IsArrayInput =>
        /\ \A p, q \in Violations : p < q => Before(stderr[p], stderr[q])
        /\ \A j \in Indexes : (j < i \/ Done) =>
              IF IsJsonObject(EntryAt(j))
              THEN /\ \A r \in DOMAIN CheckOrder :
                         Printed(FieldLine(j, CheckOrder[r]))
                            <=> ~FieldOk(CheckOrder[r], EntryAt(j).f[CheckOrder[r]])
                   /\ (\E h \in 0..(j - 1) :
                          /\ IsJsonObject(EntryAt(h))
                          /\ IdentityKey(EntryAt(h).f) = IdentityKey(EntryAt(j).f))
                        => DuplicateAt(j)
              ELSE LinesOf(j) # {}
        /\ Done => i = Len(input.items)

\* C3: validation never short-circuits.  Every entry is visited once, in
\* document order, whatever earlier entries did; every field check of an
\* object entry runs whatever earlier checks found; the violations are
\* printed in entry order and, within an entry, in the order id, tool,
\* version, description, signer, frameworks, mappingIds, packUrl,
\* publicKeyUrl, sha256, source, createdAt, duplicate key.
C3_NoShortCircuit ==
    /\ []C3_Order
    /\ [][i' = i \/ i' = i + 1]_vars

C3_Witness ==
    /\ Done /\ IsArrayInput /\ Len(input.items) = 2
    /\ Printed(FieldLine(0, "sha256"))
    /\ Printed(FieldLine(1, "tool")) /\ Printed(FieldLine(1, "sha256"))
    /\ Printed(FieldLine(1, "createdAt")) /\ DuplicateAt(1)

\* C4: for every object entry and every field among id, tool, version,
\* description and signer that is missing, exactly one violation naming
\* that field of that entry is printed; none is printed for a field that is
\* present as a non-blank string.
C4_MissingRequired ==
    (Done /\ IsArrayInput) =>
        \A j \in Indexes : IsJsonObject(EntryAt(j)) =>
            \A fd \in RequiredFields :
               /\ EntryAt(j).f[fd] = Undefined => Count(FieldLine(j, fd)) = 1
               /\ NonBlankString(EntryAt(j).f[fd]) => Count(FieldLine(j, fd)) = 0

C4_Witness ==
    /\ Done /\ IsArrayInput
    /\ \E j \in Indexes :
          /\ IsJsonObject(EntryAt(j))
          /\ EntryAt(j).f.signer = Undefined /\ NonBlankString(EntryAt(j).f.id)
          /\ Count(FieldLine(j, "signer")) = 1 /\ Count(FieldLine(j, "id")) = 0

\* C5: a duplicate-key violation is printed for an entry only if an earlier
\* entry has the same id value and the same version value.
C5_DuplicateOnlyForSamePair ==
    \A p \in DOMAIN stderr : stderr[p].kind = "duplicates id+version" =>
        \E h \in 0..(stderr[p].i - 1) : SamePair(EntryAt(h), EntryAt(stderr[p].i))

\* C6: the run ends with status 0 only if every entry satisfies every type
\* and format constraint of the IndexEntry data model (source being a
\* string of the closed set) and no two entries share an (id, version) pair.
C6_ExitZeroMeansConforming ==
    (Done /\ IsArrayInput /\ status = 0) =>
        /\ \A j \in Indexes : Conforms(EntryAt(j))
        /\ \A h, j \in Indexes : h # j => ~SamePair(EntryAt(h), EntryAt(j))

\* C7: an entry whose createdAt matches dddd-dd-dd without denoting a real
\* calendar date gets a violation naming createdAt and the run ends with
\* status 1; a createdAt that is a real calendar date in that format never
\* gets that violation.
C7_CreatedAtCalendar ==
    (Done /\ IsArrayInput) =>
        \A j \in Indexes :
            (/\ IsJsonObject(EntryAt(j))
             /\ EntryAt(j).f.createdAt.t = "string"
             /\ MatchesDatePattern(EntryAt(j).f.createdAt.s)) =>
                IF RealCalendarDate(EntryAt(j).f.createdAt.s)
                THEN Count(FieldLine(j, "createdAt")) = 0
                ELSE Count(FieldLine(j, "createdAt")) = 1 /\ status = 1

C7_Witness ==
    /\ Done /\ IsArrayInput /\ status = 1
    /\ \E j \in Indexes :
          /\ EntryAt(j).f.createdAt = Str(<<"2","0","2","4","-","0","2","-","3","0">>)
          /\ Printed(FieldLine(j, "createdAt"))

\* C8: when an (id, version) pair occurs k times, duplicate violations are
\* printed at the second to k-th occurrence and never at the first: an
\* entry gets one exactly when an earlier entry has the same pair.  (The
\* properties of an array entry read as absent ones.)
C8_DuplicatesAtLaterOccurrences ==
    (Done /\ IsArrayInput) =>
        \A j \in Indexes : TypeofObject(EntryAt(j).v) /\ Truthy(EntryAt(j).v) =>
            /\ DuplicateAt(j) <=>
                  \E h \in 0..(j - 1) :
                      /\ TypeofObject(EntryAt(h).v) /\ Truthy(EntryAt(h).v)
                      /\ SamePair(EntryAt(h), EntryAt(j))
            /\ Cardinality({p \in LinesOf(j) : stderr[p].kind = "duplicates id+version"}) <= 1

\* C9: an entry that is not an object (null, an array, a scalar) gets exactly
\* one violation, none of the field checks nor the duplicate check, and
\* leaves the identity set as it was.
C9_NonObjectOneViolation ==
    (Done /\ IsArrayInput) =>
        /\ \A j \in Indexes : ~IsJsonObject(EntryAt(j)) =>
              /\ Cardinality(LinesOf(j)) = 1
              /\ Printed(NotObjectLine(j))
        /\ seen \subseteq {IdentityKey(EntryAt(j).f) : j \in {h \in Indexes : IsJsonObject(EntryAt(h))}}

C10_Recorded ==
    IsArrayInput =>
        \A j \in Indexes : ((j < i \/ Done) /\ IsJsonObject(EntryAt(j))) =>
            /\ IdentityKey(EntryAt(j).f) \in seen
            /\ (\E h \in 0..(j - 1) :
                   /\ IsJsonObject(EntryAt(h))
                   /\ IdentityKey(EntryAt(h).f) = IdentityKey(EntryAt(j).f))
                 => Printed(DuplicateLine(j, IdentityKey(EntryAt(j).f)))

\* C10: for every object entry the duplicate check runs and the entry's key
\* (text of id, "@", text of version) is in the identity set afterwards,
\* whether or not any of its fields was flagged; a later object entry with
\* the same key is reported as a duplicate even when id or version are
\* missing or not strings; the identity set only ever grows.
C10_DuplicateCheckUnconditional ==
    /\ []C10_Recorded
    /\ [][seen \subseteq seen']_vars

C10_Witness ==
    /\ Done /\ IsArrayInput /\ Len(input.items) = 2
    /\ IsJsonObject(EntryAt(0)) /\ IsJsonObject(EntryAt(1))
    /\ EntryAt(0).f.id = Undefined /\ EntryAt(1).f.version = Undefined
    /\ Printed(FieldLine(1, "id"))
    /\ Printed(DuplicateLine(1, IdentityKey(EntryAt(1).f)))

====
